---- MODULE Spec2Model ----
(***************************************************************************)
(* Task templates and spawn preparation (crates/task/src/lib.rs).          *)
(*                                                                         *)
(* Strings are sequences of one-character strings, so that rendering a     *)
(* VariableName, building a template reference and substituting into a     *)
(* cwd template are computed character by character.  Option<T> is a       *)
(* sequence of length at most one: None is <<>> and Some(x) is <<x>>.      *)
(* A HashMap is a function from its key set to its values.                 *)
(***************************************************************************)
EXTENDS Naturals, Sequences, FiniteSets

VARIABLES
    template,   \* the TaskTemplate under preparation
    cx,         \* the TaskContext the caller holds
    result,     \* what the last prepare_exec returned (Option<SpawnInTerminal>)
    last_id,    \* TaskId of the previous SpawnInTerminal of this template
    op,         \* the last operation and its inputs
    ret,        \* what the last TaskVariables::insert returned
    rendered    \* (name, key) pairs produced by Display so far

vars == <<template, cx, result, last_id, op, ret, rendered>>

(***************************************************************************)
(* Option and HashMap                                                      *)
(***************************************************************************)
None == <<>>

Some(x) == <<x>>

EmptyMap == [k \in {} |-> <<>>]

\* HashMap::insert: the new map and the value the key held before, if any.
MapInsert(m, k, v) ==
    [map |-> [x \in DOMAIN m \cup {k} |-> IF x = k THEN v ELSE m[x]],
     old |-> IF k \in DOMAIN m THEN Some(m[k]) ELSE None]

\* HashMap::extend: every pair of b is put into a, b's value on a shared key.
MapExtend(a, b) ==
    [x \in DOMAIN a \cup DOMAIN b |-> IF x \in DOMAIN b THEN b[x] ELSE a[x]]

\* The orders in which the entries of a map with key set D can be visited.
Orders(D) ==
    {s \in [1..Cardinality(D) -> D] : \A i, j \in DOMAIN s : s[i] = s[j] => i = j}

(***************************************************************************)
(* VariableName                                                            *)
(***************************************************************************)
Closed(kind) == [kind |-> kind, name |-> <<>>]

Custom(s) == [kind |-> "Custom", name |-> s]

ClosedNames ==
    {Closed(k) : k \in {"File", "WorktreeRoot", "Symbol", "Row", "Column", "SelectedText"}}

\* Custom names: one that spells a closed variant's suffix, one with a
\* whitespace, one plain.
CustomNames ==
    {Custom(<<"R", "O", "W">>), Custom(<<"A", " ", "B">>), Custom(<<"A">>)}

AllNames == ClosedNames \cup CustomNames

Display_ColumnAsRow(n) ==
    CASE n.kind = "File" -> <<"Z", "E", "D", "_", "F", "I", "L", "E">>
      [] n.kind = "WorktreeRoot" ->
             <<"Z", "E", "D", "_", "W", "O", "R", "K", "T", "R", "E", "E", "_", "R", "O", "O", "T">>
      [] n.kind = "Symbol" -> <<"Z", "E", "D", "_", "S", "Y", "M", "B", "O", "L">>
      [] n.kind = "Row" -> <<"Z", "E", "D", "_", "R", "O", "W">>
      [] n.kind = "Column" -> <<"Z", "E", "D", "_", "R", "O", "W">>
      [] n.kind = "SelectedText" ->
             <<"Z", "E", "D", "_", "S", "E", "L", "E", "C", "T", "E", "D", "_", "T", "E", "X", "T">>
      [] n.kind = "Custom" -> <<"Z", "E", "D", "_">> \o n.name

\* impl Display for VariableName: the environment key of a name.
Display(n) ==
    CASE n.kind = "File" -> <<"Z", "E", "D", "_", "F", "I", "L", "E">>
      [] n.kind = "WorktreeRoot" ->
             <<"Z", "E", "D", "_", "W", "O", "R", "K", "T", "R", "E", "E", "_", "R", "O", "O", "T">>
      [] n.kind = "Symbol" -> <<"Z", "E", "D", "_", "S", "Y", "M", "B", "O", "L">>
      [] n.kind = "Row" -> <<"Z", "E", "D", "_", "R", "O", "W">>
      [] n.kind = "Column" -> <<"Z", "E", "D", "_", "C", "O", "L", "U", "M", "N">>
      [] n.kind = "SelectedText" ->
             <<"Z", "E", "D", "_", "S", "E", "L", "E", "C", "T", "E", "D", "_", "T", "E", "X", "T">>
      [] n.kind = "Custom" -> <<"Z", "E", "D", "_">> \o n.name

\* VariableName::template_value: `${KEY}` for Custom, `$KEY` otherwise.
template_value(n) ==
    IF n.kind = "Custom"
    THEN <<"$", "{">> \o Display(n) \o <<"}">>
    ELSE <<"$">> \o Display(n)

(***************************************************************************)
(* TaskVariables                                                           *)
(***************************************************************************)
\* TaskVariables::default(): the empty container.
TaskVariablesDefault == EmptyMap

\* TaskVariables::into_env_variables: the entries, visited in `order`, are
\* collected into a HashMap keyed by the rendered name.  A HashMap yields
\* its entries in an unspecified order; collecting inserts them one by one,
\* so an entry visited later replaces an earlier one with the same key.
RECURSIVE IntoEnvFrom(_, _, _, _)
IntoEnvFrom(self, order, i, acc) ==
    IF i > Len(order)
    THEN acc
    ELSE IntoEnvFrom(self, order, i + 1,
                     MapInsert(acc, Display(order[i]), self[order[i]]).map)

into_env_variables(self, order) == IntoEnvFrom(self, order, 1, EmptyMap)

insert_ReturnsNew(self, variable, value) ==
    [self |-> MapInsert(self, variable, value).map, ret |-> Some(value)]

\* TaskVariables::insert: the container afterwards and the returned Option.
insert(self, variable, value) ==
    [self |-> MapInsert(self, variable, value).map,
     ret |-> MapInsert(self, variable, value).old]

extend_KeepsExisting(self, other) == MapExtend(other, self)

\* TaskVariables::extend: the container afterwards.
extend(self, other) == MapExtend(self, other)

(***************************************************************************)
(* subst::substitute, as prepare_exec calls it on the cwd template.  The   *)
(* templates of this model hold no backslash and no colon, so escapes and  *)
(* `${NAME:default}` are left out: `$NAME` and `${NAME}` are read, NAME    *)
(* being the longest run of ASCII letters, digits and underscores.         *)
(***************************************************************************)
NameChars ==
    {"A", "B", "C", "D", "E", "F", "G", "H", "I", "J", "K", "L", "M",
     "N", "O", "P", "Q", "R", "S", "T", "U", "V", "W", "X", "Y", "Z",
     "a", "b", "c", "d", "e", "f", "g", "h", "i", "j", "k", "l", "m",
     "n", "o", "p", "q", "r", "s", "t", "u", "v", "w", "x", "y", "z",
     "0", "1", "2", "3", "4", "5", "6", "7", "8", "9", "_"}

Ok(out) == [ok |-> TRUE, out |-> out, err |-> "none"]

Err(e) == [ok |-> FALSE, out |-> <<>>, err |-> e]

\* The first position from i on that holds no name character (Len + 1 if none).
RECURSIVE NameEnd(_, _)
NameEnd(source, i) ==
    IF i > Len(source) \/ source[i] \notin NameChars
    THEN i
    ELSE NameEnd(source, i + 1)

\* The variable reference that starts with the `$` at `finger`.
ParseVariable(source, finger) ==
    IF finger = Len(source)
    THEN [ok |-> FALSE, err |-> "MissingVariableName", name |-> <<>>, next |-> finger]
    ELSE IF source[finger + 1] = "{"
    THEN LET name_start == finger + 2
             name_end == NameEnd(source, name_start)
         IN  IF name_start > Len(source) \/ name_end = name_start
             THEN [ok |-> FALSE, err |-> "MissingVariableName", name |-> <<>>, next |-> finger]
             ELSE IF name_end > Len(source)
             THEN [ok |-> FALSE, err |-> "MissingClosingBrace", name |-> <<>>, next |-> finger]
             ELSE IF source[name_end] = "}"
             THEN [ok |-> TRUE, err |-> "none",
                   name |-> SubSeq(source, name_start, name_end - 1),
                   next |-> name_end + 1]
             ELSE [ok |-> FALSE, err |-> "UnexpectedCharacter", name |-> <<>>, next |-> finger]
    ELSE LET name_end == NameEnd(source, finger + 1)
         IN  IF name_end = finger + 1
             THEN [ok |-> FALSE, err |-> "MissingVariableName", name |-> <<>>, next |-> finger]
             ELSE [ok |-> TRUE, err |-> "none",
                   name |-> SubSeq(source, finger + 1, name_end - 1),
                   next |-> name_end]

RECURSIVE SubstituteFrom(_, _, _)
SubstituteFrom(source, finger, variables) ==
    IF finger > Len(source)
    THEN Ok(<<>>)
    ELSE IF source[finger] = "$"
    THEN LET variable == ParseVariable(source, finger)
         IN  IF ~variable.ok
             THEN Err(variable.err)
             ELSE IF variable.name \notin DOMAIN variables
             THEN Err("NoSuchVariable")
             ELSE LET rest == SubstituteFrom(source, variable.next, variables)
                  IN  IF rest.ok
                      THEN Ok(variables[variable.name] \o rest.out)
                      ELSE rest
    ELSE LET rest == SubstituteFrom(source, finger + 1, variables)
         IN  IF rest.ok THEN Ok(<<source[finger]>> \o rest.out) ELSE rest

substitute(source, variables) == SubstituteFrom(source, 1, variables)

(***************************************************************************)
(* Definition, TaskTemplate, TaskContext                                   *)
(***************************************************************************)
\* Definition::default() with RevealStrategy's #[default] variant.
DefinitionDefault ==
    [label |-> <<>>, command |-> <<>>, args |-> <<>>, env |-> EmptyMap,
     cwd |-> None, use_new_terminal |-> FALSE, allow_concurrent_runs |-> FALSE,
     reveal |-> "Always"]

\* TaskContext::default().
TaskContextDefault == [cwd |-> None, task_variables |-> TaskVariablesDefault]

oneshot_DefaultLabel(prompt) ==
    [id |-> prompt,
     definition |-> [DefinitionDefault EXCEPT !.command = prompt]]

\* TaskTemplate::oneshot.
oneshot(prompt) ==
    [id |-> prompt,
     definition |-> [DefinitionDefault EXCEPT !.label = prompt, !.command = prompt]]

prepare_exec_StaticEnvWins(self, context, order) ==
    LET task_variables == into_env_variables(context.task_variables, order)
        resolved == IF self.definition.cwd = None
                    THEN None
                    ELSE LET r == substitute(self.definition.cwd[1], task_variables)
                         IN  IF r.ok THEN Some(r.out) ELSE None
    IN  Some([id |-> self.id,
              cwd |-> IF resolved # None THEN resolved ELSE context.cwd,
              use_new_terminal |-> self.definition.use_new_terminal,
              allow_concurrent_runs |-> self.definition.allow_concurrent_runs,
              label |-> self.definition.label,
              command |-> self.definition.command,
              args |-> self.definition.args,
              reveal |-> self.definition.reveal,
              env |-> MapExtend(task_variables, self.definition.env)])

prepare_exec_LabelAsId(self, context, order) ==
    LET task_variables == into_env_variables(context.task_variables, order)
        resolved == IF self.definition.cwd = None
                    THEN None
                    ELSE LET r == substitute(self.definition.cwd[1], task_variables)
                         IN  IF r.ok THEN Some(r.out) ELSE None
    IN  Some([id |-> self.definition.label,
              cwd |-> IF resolved # None THEN resolved ELSE context.cwd,
              use_new_terminal |-> self.definition.use_new_terminal,
              allow_concurrent_runs |-> self.definition.allow_concurrent_runs,
              label |-> self.definition.label,
              command |-> self.definition.command,
              args |-> self.definition.args,
              reveal |-> self.definition.reveal,
              env |-> MapExtend(self.definition.env, task_variables)])

\* <TaskTemplate as Task>::prepare_exec.  `order` is the order in which the
\* HashMap of context.task_variables yields its entries.
prepare_exec(self, context, order) ==
    LET task_variables == into_env_variables(context.task_variables, order)
        \* definition.cwd.clone().and_then(|path| substitute(..).map(Into::into).ok())
        resolved == IF self.definition.cwd = None
                    THEN None
                    ELSE LET r == substitute(self.definition.cwd[1], task_variables)
                         IN  IF r.ok THEN Some(r.out) ELSE None
    IN  Some([id |-> self.id,
              \* .or(cwd)
              cwd |-> IF resolved # None THEN resolved ELSE context.cwd,
              use_new_terminal |-> self.definition.use_new_terminal,
              allow_concurrent_runs |-> self.definition.allow_concurrent_runs,
              label |-> self.definition.label,
              command |-> self.definition.command,
              args |-> self.definition.args,
              reveal |-> self.definition.reveal,
              env |-> MapExtend(self.definition.env, task_variables)])

(***************************************************************************)
(* Inputs                                                                  *)
(***************************************************************************)
\* Most entries a TaskVariables of the model holds.
MaxVars == 2

\* Longest one-shot prompt.
MaxPromptLen == 2

\* The names a context binds: two closed variants, a Custom name whose key
\* is also Row's, a Custom name with a whitespace and a plain Custom name.
VarNames ==
    {Closed("Row"), Closed("WorktreeRoot"),
     Custom(<<"R", "O", "W">>), Custom(<<"A", " ", "B">>), Custom(<<"A">>)}

Values == {<<"a">>, <<"b">>}

\* context.cwd
ContextCwds == {None, Some(<<"c">>)}

\* Literal text after a variable reference in a cwd template: empty, or
\* starting with a path separator.
Suffixes == {<<>>, <<"/">>, <<"/", "b">>}

TaskVariablesSet ==
    UNION {[D -> Values] : D \in {S \in SUBSET VarNames : Cardinality(S) <= MaxVars}}

RowKey == <<"Z", "E", "D", "_", "R", "O", "W">>

\* definition.env: empty, a plain key, a key a task variable also renders
\* to, and both.
DefinitionEnvs ==
    {EmptyMap,
     [k \in {<<"X">>} |-> <<"1">>],
     [k \in {RowKey} |-> <<"1">>],
     [k \in {<<"X">>, RowKey} |-> <<"1">>]}

CwdTemplates ==
    {None} \cup {Some(template_value(n) \o s) : n \in VarNames, s \in Suffixes}

TemplateA(cwd, env) ==
    [id |-> <<"t">>,
     definition |-> [label |-> <<"l">>, command |-> <<"m">>, args |-> <<<<"r">>>>,
                     env |-> env, cwd |-> cwd, use_new_terminal |-> TRUE,
                     allow_concurrent_runs |-> FALSE, reveal |-> "Never"]]

TemplateB(cwd, env) ==
    [id |-> <<"u">>,
     definition |-> [label |-> <<"t">>, command |-> <<"l">>, args |-> <<>>,
                     env |-> env, cwd |-> cwd, use_new_terminal |-> FALSE,
                     allow_concurrent_runs |-> TRUE, reveal |-> "Always"]]

Templates ==
    {TemplateA(c, EmptyMap) : c \in CwdTemplates}
    \cup {TemplateA(None, e) : e \in DefinitionEnvs}
    \cup {TemplateB(c, e) : c \in {None, Some(template_value(Closed("Row")) \o <<"/">>)},
                            e \in DefinitionEnvs}

PromptChars == {"m", " "}

Prompts == UNION {[1..n -> PromptChars] : n \in 0..MaxPromptLen}

(***************************************************************************)
(* Preparing spawns: a caller holds a template, builds a context and       *)
(* prepares it, again and again; a one-shot prompt makes a new template.   *)
(***************************************************************************)
Init ==
    /\ template \in Templates
    /\ cx = TaskContextDefault
    /\ result = None
    /\ last_id = None
    /\ op = [tag |-> "init"]
    /\ ret = None
    /\ rendered = {}

\* The caller binds a variable in the context it is building.
SetVariable ==
    \E n \in VarNames, v \in Values :
        /\ n \in DOMAIN cx.task_variables
           \/ Cardinality(DOMAIN cx.task_variables) < MaxVars
        /\ cx' = [cx EXCEPT !.task_variables = insert(@, n, v).self]
        /\ result' = None
        /\ op' = [tag |-> "context"]
        /\ UNCHANGED <<template, last_id, ret, rendered>>

\* The caller sets the context's working directory.
SetCwd ==
    \E c \in ContextCwds :
        /\ cx' = [cx EXCEPT !.cwd = c]
        /\ result' = None
        /\ op' = [tag |-> "context"]
        /\ UNCHANGED <<template, last_id, ret, rendered>>

\* The caller starts over from TaskContext::default().
ResetContext ==
    /\ cx' = TaskContextDefault
    /\ result' = None
    /\ op' = [tag |-> "context"]
    /\ UNCHANGED <<template, last_id, ret, rendered>>

\* template.prepare_exec(cx.clone()); the HashMap's iteration order is open.
PrepareExec ==
    \E order \in Orders(DOMAIN cx.task_variables) :
        /\ result' = prepare_exec(template, cx, order)
        /\ last_id' = Some(result'[1].id)
        /\ op' = [tag |-> "prepare", order |-> order, rerun |-> last_id # None]
        /\ UNCHANGED <<template, cx, ret, rendered>>

\* TaskTemplate::oneshot(prompt) replaces the template the caller holds.
Oneshot ==
    \E prompt \in Prompts :
        /\ template' = oneshot(prompt)
        /\ result' = None
        /\ last_id' = None
        /\ op' = [tag |-> "oneshot", prompt |-> prompt]
        /\ UNCHANGED <<cx, ret, rendered>>

Next == SetVariable \/ SetCwd \/ ResetContext \/ PrepareExec \/ Oneshot

Spec == Init /\ [][Next]_vars

(***************************************************************************)
(* TaskVariables on its own: insert and extend.                            *)
(***************************************************************************)
InitVars ==
    /\ template = oneshot(<<>>)
    /\ cx = TaskContextDefault
    /\ result = None
    /\ last_id = None
    /\ op = [tag |-> "init"]
    /\ ret = None
    /\ rendered = {}

\* cx.task_variables.insert(variable, value)
Insert ==
    \E variable \in VarNames, value \in Values :
        /\ variable \in DOMAIN cx.task_variables
           \/ Cardinality(DOMAIN cx.task_variables) < MaxVars
        /\ cx' = [cx EXCEPT !.task_variables = insert(@, variable, value).self]
        /\ ret' = insert(cx.task_variables, variable, value).ret
        /\ op' = [tag |-> "insert", before |-> cx.task_variables,
                  variable |-> variable, value |-> value]
        /\ UNCHANGED <<template, result, last_id, rendered>>

\* cx.task_variables.extend(other)
Extend ==
    \E other \in TaskVariablesSet :
        /\ Cardinality(DOMAIN cx.task_variables \cup DOMAIN other) <= MaxVars
        /\ cx' = [cx EXCEPT !.task_variables = extend(@, other)]
        /\ ret' = None
        /\ op' = [tag |-> "extend", before |-> cx.task_variables, other |-> other]
        /\ UNCHANGED <<template, result, last_id, rendered>>

NextVars == Insert \/ Extend

SpecVars == InitVars /\ [][NextVars]_vars

(***************************************************************************)
(* Rendering names to environment keys.                                    *)
(***************************************************************************)
\* name.to_string()
Render ==
    \E n \in AllNames :
        /\ rendered' = rendered \cup {[name |-> n, key |-> Display(n)]}
        /\ UNCHANGED <<template, cx, result, last_id, op, ret>>

NextKeys == Render

SpecKeys == InitVars /\ [][NextKeys]_vars

(***************************************************************************)
(* Properties                                                              *)
(***************************************************************************)
Prepared == op.tag = "prepare"

Spawn == result[1]

DefinitionCwd == template.definition.cwd

\* The environment keys the context's variables render to.
EnvKeys(tv) == {Display(n) : n \in DOMAIN tv}

\* C1: when definition.cwd references a variable the context does not bind,
\* prepare_exec fails and returns no SpawnInTerminal, whatever context.cwd is.
C1_UnboundCwdFails ==
    (/\ Prepared
     /\ \E n \in VarNames, s \in Suffixes :
            /\ DefinitionCwd = Some(template_value(n) \o s)
            /\ n \notin DOMAIN cx.task_variables
            /\ Display(n) \notin EnvKeys(cx.task_variables))
    => result = None

\* C2: the returned env is definition.env overridden by the environment map
\* rendered from the context's variables: a rendered key holds a value of a
\* task variable that renders to it (the one the rendered map holds), a key
\* of definition.env that no variable renders to keeps its value, and there
\* is no other key.
C2_EnvOverride ==
    Prepared =>
        LET env == Spawn.env
            tv == cx.task_variables
            static == template.definition.env
        IN  /\ DOMAIN env = DOMAIN static \cup EnvKeys(tv)
            /\ \A n \in DOMAIN tv :
                   /\ env[Display(n)] \in
                          {tv[m] : m \in {x \in DOMAIN tv : Display(x) = Display(n)}}
                   /\ env[Display(n)] = into_env_variables(tv, op.order)[Display(n)]
            /\ \A k \in DOMAIN static \ EnvKeys(tv) : env[k] = static[k]

C2_Witness ==
    /\ Prepared
    /\ {RowKey, <<"X">>} \subseteq DOMAIN template.definition.env
    /\ DOMAIN cx.task_variables = {Closed("Row"), Closed("WorktreeRoot")}
    /\ Spawn.env[RowKey] = cx.task_variables[Closed("Row")]
    /\ Spawn.env[RowKey] # template.definition.env[RowKey]

\* C3: a definition.cwd made of the template value of a bound name n and a
\* literal suffix resolves to n's value followed by the suffix, and that is
\* the cwd of the SpawnInTerminal whatever context.cwd is.
C3_BoundCwdResolves ==
    Prepared =>
        \A n \in DOMAIN cx.task_variables, s \in Suffixes :
            DefinitionCwd = Some(template_value(n) \o s)
                => Spawn.cwd = Some(cx.task_variables[n] \o s)

\* C4: the cwd of the SpawnInTerminal is context.cwd when definition.cwd is
\* absent, and does not depend on context.cwd when definition.cwd is present.
C4_ContextCwdOnlyIfAbsent ==
    Prepared =>
        /\ DefinitionCwd = None => Spawn.cwd = cx.cwd
        /\ DefinitionCwd # None =>
               \A c \in ContextCwds :
                   prepare_exec(template, [cx EXCEPT !.cwd = c], op.order)[1].cwd
                       = Spawn.cwd

\* C5: a prepare_exec call leaves the template as it was, returns the
\* template's id, label, command, args, use_new_terminal,
\* allow_concurrent_runs and reveal verbatim, and returns the TaskId the
\* previous run of the template returned.
C5_TemplateVerbatim ==
    [][op'.tag = "prepare" =>
          /\ template' = template
          /\ result' # None
          /\ result'[1].id = template.id
          /\ result'[1].label = template.definition.label
          /\ result'[1].command = template.definition.command
          /\ result'[1].args = template.definition.args
          /\ result'[1].use_new_terminal = template.definition.use_new_terminal
          /\ result'[1].allow_concurrent_runs = template.definition.allow_concurrent_runs
          /\ result'[1].reveal = template.definition.reveal
          /\ last_id # None => result'[1].id = last_id[1]]_vars

C5_Witness ==
    /\ Prepared
    /\ op.rerun
    /\ cx.cwd # None
    /\ cx.task_variables # TaskVariablesDefault
    /\ template.id # template.definition.label

\* C6: insert(n, v) returns the previous value of n if n was a key and None
\* otherwise; afterwards n maps to v, every other key keeps its value and
\* the key set is the old one with n.
C6_InsertReturnsPrevious ==
    op.tag = "insert" =>
        LET before == op.before
            n == op.variable
            tv == cx.task_variables
        IN  /\ ret # None <=> n \in DOMAIN before
            /\ n \in DOMAIN before => ret = Some(before[n])
            /\ DOMAIN tv = DOMAIN before \cup {n}
            /\ tv[n] = op.value
            /\ \A k \in DOMAIN before \ {n} : tv[k] = before[k]
            /\ Cardinality(DOMAIN tv) =
                   Cardinality(DOMAIN before) + (IF n \in DOMAIN before THEN 0 ELSE 1)

C6_Witness ==
    /\ op.tag = "insert"
    /\ ret # None
    /\ ret # Some(op.value)
    /\ DOMAIN op.before # {op.variable}

\* The pairs of `other`, inserted into `self` one at a time in `order`.
RECURSIVE InsertAll(_, _, _, _)
InsertAll(self, other, order, i) ==
    IF i > Len(order)
    THEN self
    ELSE InsertAll(insert(self, order[i], other[order[i]]).self, other, order, i + 1)

\* C7: a.extend(b) leaves a as inserting b's pairs one at a time does, in
\* any order: b's keys hold b's values, the keys only a had keep a's values,
\* and there is no other key.
C7_ExtendIsInsertFold ==
    op.tag = "extend" =>
        LET a == op.before
            b == op.other
            tv == cx.task_variables
        IN  /\ \A order \in Orders(DOMAIN b) : InsertAll(a, b, order, 1) = tv
            /\ DOMAIN tv = DOMAIN a \cup DOMAIN b
            /\ \A k \in DOMAIN b : tv[k] = b[k]
            /\ \A k \in DOMAIN a \ DOMAIN b : tv[k] = a[k]

C7_Witness ==
    /\ op.tag = "extend"
    /\ DOMAIN op.before \ DOMAIN op.other # {}
    /\ \E k \in DOMAIN op.before \cap DOMAIN op.other : op.before[k] # op.other[k]

\* C8: the environment map of a TaskVariables is the same whatever order its
\* entries are visited in, so preparing the same template with the same
\* context again yields the same env.
C8_OrderIrrelevant ==
    Prepared =>
        \A o \in Orders(DOMAIN cx.task_variables) :
            /\ into_env_variables(cx.task_variables, o)
                   = into_env_variables(cx.task_variables, op.order)
            /\ prepare_exec(template, cx, o)[1].env = Spawn.env

HasReservedPrefix(key) ==
    /\ Len(key) >= Len(<<"Z", "E", "D", "_">>)
    /\ SubSeq(key, 1, Len(<<"Z", "E", "D", "_">>)) = <<"Z", "E", "D", "_">>

\* C9: a name always renders to the same key, two different closed variants
\* never render to the same key, and every key starts with ZED_.
C9_KeysInjectiveAndPrefixed ==
    \A p, q \in rendered :
        /\ p.name = q.name => p.key = q.key
        /\ (p.name \in ClosedNames /\ q.name \in ClosedNames /\ p.key = q.key)
               => p.name = q.name
        /\ HasReservedPrefix(p.key)

C9_Witness == \A n \in AllNames : \E p \in rendered : p.name = n

\* C10: oneshot(p) has id, label and command equal to p and every other
\* Definition field at its default; two one-shot tasks have the same TaskId
\* exactly when their prompts are equal.
C10_OneshotVerbatim ==
    op.tag = "oneshot" =>
        /\ template.id = op.prompt
        /\ template.definition.label = op.prompt
        /\ template.definition.command = op.prompt
        /\ template.definition.args = <<>>
        /\ DOMAIN template.definition.env = {}
        /\ template.definition.cwd = None
        /\ template.definition.use_new_terminal = FALSE
        /\ template.definition.allow_concurrent_runs = FALSE
        /\ template.definition.reveal = "Always"
        /\ \A q \in Prompts : (oneshot(q).id = template.id) <=> (q = op.prompt)

C10_Witness ==
    /\ op.tag = "oneshot"
    /\ Len(op.prompt) = MaxPromptLen
    /\ \E i \in DOMAIN op.prompt : op.prompt[i] = " "

====
